---- MODULE Spec2Model ----
(***************************************************************************)
(* Model of esignbase_sdk: the OAuth2Client credential, _validate,         *)
(* connect, _ensure_connected, _api_request (bearer header injection and   *)
(* the single reconnect-and-retry on 401) and the resource functions built *)
(* on it.  Each caller thread has a call frame; the statements of a call   *)
(* run as successive steps, and the HTTP responses are chosen by the       *)
(* server (nondeterministically, from small sets).                         *)
(***************************************************************************)
EXTENDS Integers, Sequences, FiniteSets, TLC

(* ------------------------------ bounds --------------------------------- *)

\* number of caller threads that hold the same OAuth2Client
NumThreads == 2
\* number of library calls made in one run
MaxCalls == 2

\* number of next() calls a caller makes on an exhausted download generator
MaxStops == 2

Threads == 1..NumThreads

(* --------------------------- python values ----------------------------- *)

\* Python's None, for the Optional[str] fields
None == "<None>"
\* a key that a dict does not hold
Absent == "<absent>"
\* ESignBaseSDKError.status_code when no status_code is passed
NoStatusCode == 0

\* bool(s) of an Optional[str]
Truthy(s) == s # None /\ s # ""

GrantType == {"client_credentials", "authorization_code"}

(* ------------------------------ OAuth2Client --------------------------- *)

\* the defects a caller's credential can have
Defects(c) ==
    {d \in {"id", "secret", "scope", "user_name", "password"} :
        \/ d = "id" /\ c.id = ""
        \/ d = "secret" /\ c.secret = ""
        \/ d = "scope" /\ c.scope = << >>
        \/ d = "user_name" /\ c.grant_type = "authorization_code"
                           /\ c.user_name \in {None, ""}
        \/ d = "password" /\ c.grant_type = "authorization_code"
                          /\ c.password \in {None, ""}}

\* the credentials a caller may construct: the valid ones, those with one
\* defect, and the authorization_code ones with neither user name nor
\* password (a client_credentials client is built without the two)
Clients ==
    { c \in [ id           : {"", "id"},
              secret       : {"", "secret"},
              grant_type   : GrantType,
              user_name    : {None, "", "user"},
              password     : {None, "", "pw"},
              access_token : {None, "", "oldtoken"},
              scope        : {<< >>, <<"read", "delete">>} ] :
        /\ c.grant_type = "client_credentials" =>
               (c.user_name = None /\ c.password = None)
        /\ \/ Cardinality(Defects(c)) <= 1
           \/ Defects(c) = {"user_name", "password"} /\ c.user_name = c.password }

\* variant: only None counts as "no token"
is_connected_NoneOnly(c) == c.access_token # None

is_connected(c) == Truthy(c.access_token)

\* placeholder in the frame of a thread that is not inside a call
NoClient ==
    [id |-> "", secret |-> "", grant_type |-> "client_credentials",
     user_name |-> None, password |-> None, access_token |-> None,
     scope |-> << >>]

(* --------------------------- ESignBaseSDKError ------------------------- *)

NoError == [message |-> "", text |-> "", status_code |-> NoStatusCode]

\* ESignBaseSDKError(message, status_code): the message is a fixed prefix
\* followed, for HTTP failures, by the response text
ESignBaseSDKError(message, text, status_code) ==
    [message |-> message, text |-> text, status_code |-> status_code]

MsgScope     == "At least one scope must be provided"
MsgId        == "Client ID is required"
MsgSecret    == "Client secret is required"
MsgUserPass  == "Username and password are required for authorization code grant type"
MsgNotConn   == "OAuth2Client is not connected. Call connect() first."
MsgConnect   == "Failed to connect to ESignBase API: "

(* ------------------------------- _validate ----------------------------- *)

\* variant: the secret is not checked
_validate_NoSecretCheck(c) ==
    IF c.scope = << >> THEN ESignBaseSDKError(MsgScope, "", NoStatusCode)
    ELSE IF ~Truthy(c.id) THEN ESignBaseSDKError(MsgId, "", NoStatusCode)
    ELSE IF c.grant_type = "authorization_code"
            /\ (~Truthy(c.user_name) \/ ~Truthy(c.password))
         THEN ESignBaseSDKError(MsgUserPass, "", NoStatusCode)
    ELSE NoError

\* variant: for authorization_code only the user name is checked
_validate_UserOnly(c) ==
    IF c.scope = << >> THEN ESignBaseSDKError(MsgScope, "", NoStatusCode)
    ELSE IF ~Truthy(c.id) THEN ESignBaseSDKError(MsgId, "", NoStatusCode)
    ELSE IF ~Truthy(c.secret) THEN ESignBaseSDKError(MsgSecret, "", NoStatusCode)
    ELSE IF c.grant_type = "authorization_code" /\ ~Truthy(c.user_name)
         THEN ESignBaseSDKError(MsgUserPass, "", NoStatusCode)
    ELSE NoError

\* the error _validate raises on client c, NoError when it returns
_validate(c) ==
    IF c.scope = << >> THEN ESignBaseSDKError(MsgScope, "", NoStatusCode)
    ELSE IF ~Truthy(c.id) THEN ESignBaseSDKError(MsgId, "", NoStatusCode)
    ELSE IF ~Truthy(c.secret) THEN ESignBaseSDKError(MsgSecret, "", NoStatusCode)
    ELSE IF c.grant_type = "authorization_code"
            /\ (~Truthy(c.user_name) \/ ~Truthy(c.password))
         THEN ESignBaseSDKError(MsgUserPass, "", NoStatusCode)
    ELSE NoError

\* connect's own check of user_name and password, made after _validate
ConnectGrantCheck(c) ==
    IF c.grant_type = "authorization_code"
       /\ (~Truthy(c.user_name) \/ ~Truthy(c.password))
    THEN ESignBaseSDKError(MsgUserPass, "", NoStatusCode)
    ELSE NoError

\* the error connect raises before it sends anything, NoError when it goes on
ConnectPreflight(c) ==
    IF _validate(c) # NoError THEN _validate(c) ELSE ConnectGrantCheck(c)

(* ------------------------------ HTTP responses ------------------------- *)

NoResponse == [status_code |-> 0, text |-> ""]

\* requests.Response.ok
Ok(r) == r.status_code < 400

\* what the token endpoint may answer
TokenResponses ==
    { [status_code |-> 200, text |-> "{access_token:t1}"],
      [status_code |-> 200, text |-> "{access_token:t2}"],
      [status_code |-> 200, text |-> "{access_token:}"],
      [status_code |-> 200, text |-> "{}"],
      [status_code |-> 400, text |-> "bad"] }

\* what a resource endpoint may answer
ResourceResponses ==
    { [status_code |-> 200, text |-> "{ok:true}"],
      [status_code |-> 401, text |-> "unauthorized"],
      [status_code |-> 403, text |-> "forbidden"],
      [status_code |-> 500, text |-> "err"] }

\* requests.Response.json(): the decoded body, a dict shown as a record over
\* the keys the bodies above use (Absent: the dict has no such key)
Json(text) ==
    CASE text = "{access_token:t1}" -> [access_token |-> "t1",   ok |-> Absent]
      [] text = "{access_token:t2}" -> [access_token |-> "t2",   ok |-> Absent]
      [] text = "{access_token:}"   -> [access_token |-> "",     ok |-> Absent]
      [] text = "{}"                -> [access_token |-> Absent, ok |-> Absent]
      [] text = "{ok:true}"         -> [access_token |-> Absent, ok |-> "true"]

NoJson == [access_token |-> Absent, ok |-> Absent]

\* dict.get(key): None when the key is missing
DictGet(d, key) == IF d[key] = Absent THEN None ELSE d[key]

(* ------------------------------ request headers ------------------------ *)

HeaderKeys == {"Authorization", "Content-Type"}

\* kwargs.pop("headers", {}) or {} when the caller passes no headers
NoHeaders == [k \in HeaderKeys |-> Absent]

\* the headers dicts a caller of _api_request may pass
CallerHeaders ==
    { NoHeaders,
      [NoHeaders EXCEPT !["Authorization"] = "Custom xyz"],
      [NoHeaders EXCEPT !["Content-Type"] = "application/json"] }

\* f"Bearer {client.access_token}"
Bearer(token) == "Bearer " \o token

(* ------------------------------ operations ----------------------------- *)

ResourceOps ==
    { "get_templates", "get_template", "get_documents", "get_document",
      "create_document", "download_document", "delete_document", "get_credits" }

\* the headers keyword each resource function passes to _api_request
OpHeaders(o) ==
    IF o = "create_document"
    THEN [NoHeaders EXCEPT !["Content-Type"] = "application/json"]
    ELSE NoHeaders

NoResult ==
    [kind |-> "none", error |-> NoError, value_type |-> "none",
     response |-> NoResponse, json |-> NoJson]

Raise(e) ==
    [kind |-> "raise", error |-> e, value_type |-> "none",
     response |-> NoResponse, json |-> NoJson]

\* return response.json()
ReturnJson(r) ==
    [kind |-> "return", error |-> NoError, value_type |-> "json",
     response |-> NoResponse, json |-> Json(r.text)]

\* a function that falls off its end
ReturnNone ==
    [kind |-> "return", error |-> NoError, value_type |-> "None",
     response |-> NoResponse, json |-> NoJson]

\* return response
ReturnResponse(r) ==
    [kind |-> "return", error |-> NoError, value_type |-> "Response",
     response |-> r, json |-> NoJson]

\* yield from response.iter_content(...): the generator over the response
ReturnStream(r) ==
    [kind |-> "return", error |-> NoError, value_type |-> "generator",
     response |-> r, json |-> NoJson]

\* what each resource function does with the response of _api_request
get_templates(r) ==
    IF ~Ok(r)
    THEN Raise(ESignBaseSDKError("Failed to get templates: ", r.text, NoStatusCode))
    ELSE ReturnJson(r)

get_template(r) ==
    IF ~Ok(r)
    THEN Raise(ESignBaseSDKError("Failed to get template: ", r.text, r.status_code))
    ELSE ReturnJson(r)

get_documents(r) ==
    IF ~Ok(r)
    THEN Raise(ESignBaseSDKError("Failed to get documents: ", r.text, r.status_code))
    ELSE ReturnJson(r)

get_document(r) ==
    IF ~Ok(r)
    THEN Raise(ESignBaseSDKError("Failed to get document: ", r.text, r.status_code))
    ELSE ReturnJson(r)

create_document(r) ==
    IF ~Ok(r)
    THEN Raise(ESignBaseSDKError("Failed to create document: ", r.text, r.status_code))
    ELSE ReturnJson(r)

\* variant: the response is streamed without looking at response.ok
download_document_NoCheck(r) == ReturnStream(r)

download_document(r) ==
    IF ~Ok(r)
    THEN Raise(ESignBaseSDKError("Failed to download document: ", r.text, r.status_code))
    ELSE ReturnStream(r)

delete_document(r) ==
    IF ~Ok(r)
    THEN Raise(ESignBaseSDKError("Failed to delete document: ", r.text, r.status_code))
    ELSE ReturnNone

get_credits(r) ==
    IF ~Ok(r)
    THEN Raise(ESignBaseSDKError("Failed to get credits: ", r.text, r.status_code))
    ELSE ReturnJson(r)

\* the outcome of operation o once _api_request has returned response r
Outcome(o, r) ==
    CASE o = "get_templates"     -> get_templates(r)
      [] o = "get_template"      -> get_template(r)
      [] o = "get_documents"     -> get_documents(r)
      [] o = "get_document"      -> get_document(r)
      [] o = "create_document"   -> create_document(r)
      [] o = "download_document" -> download_document(r)
      [] o = "delete_document"   -> delete_document(r)
      [] o = "get_credits"       -> get_credits(r)
      [] o = "_api_request"      -> ReturnResponse(r)

(* ------------------------- download_document stream ------------------- *)

\* response.iter_content(chunk_size=8192): the body in pieces, in order
IterContent(r) ==
    CASE r.text = "{ok:true}" -> <<"{ok:", "true}">>
      [] r.text = ""          -> << >>
      [] OTHER                -> <<r.text>>

\* the generator download_document returns: the chunks it has still to
\* yield, those it has yielded, and how often it has raised StopIteration
NoGenerator == [stream |-> << >>, yielded |-> << >>, stops |-> 0]

Generator(res) ==
    IF res.value_type = "generator"
    THEN [stream |-> IterContent(res.response), yielded |-> << >>, stops |-> 0]
    ELSE NoGenerator

\* one next() on a generator that has chunks left
YieldNext(g) ==
    [g EXCEPT !.yielded = Append(@, Head(g.stream)), !.stream = Tail(g.stream)]

(* ---------------------- create_document expiration --------------------- *)

\* a datetime: its wall-clock fields, whether it has a tzinfo, and the
\* tzinfo's utcoffset in minutes
NoDatetime == [wall |-> None, aware |-> FALSE, utcoffset |-> 0]

\* the expiration_date arguments a caller may pass (None, naive, aware)
Expirations ==
    { NoDatetime,
      [wall |-> "2025-01-01T12:00:00", aware |-> FALSE, utcoffset |-> 0],
      [wall |-> "2025-01-01T12:00:00", aware |-> TRUE,  utcoffset |-> 120],
      [wall |-> "2025-06-30T23:59:59", aware |-> TRUE,  utcoffset |-> -330] }

\* variant: a naive datetime is left naive
EnsureAware_Skip(dt) == dt

\* expiration_date.replace(tzinfo=timezone.utc) when tzinfo is None
EnsureAware(dt) ==
    IF ~dt.aware THEN [dt EXCEPT !.aware = TRUE, !.utcoffset = 0] ELSE dt

Digit(n) ==
    CASE n = 0 -> "0" [] n = 1 -> "1" [] n = 2 -> "2" [] n = 3 -> "3"
      [] n = 4 -> "4" [] n = 5 -> "5" [] n = 6 -> "6" [] n = 7 -> "7"
      [] n = 8 -> "8" [] n = 9 -> "9"

TwoDigits(n) == Digit(n \div 10) \o Digit(n % 10)

\* strftime's %z: sign, hours and minutes of the offset; empty when naive
FormatOffset(dt) ==
    IF ~dt.aware THEN ""
    ELSE LET m == IF dt.utcoffset < 0 THEN 0 - dt.utcoffset ELSE dt.utcoffset
         IN (IF dt.utcoffset < 0 THEN "-" ELSE "+")
                \o TwoDigits(m \div 60) \o TwoDigits(m % 60)

\* expiration_date.strftime("%Y-%m-%dT%H:%M:%S%z")
Strftime(dt) == dt.wall \o FormatOffset(dt)

\* request_data as far as expiration_date goes
RequestData(exp) ==
    [expiration_date |->
        IF exp = NoDatetime THEN Absent ELSE Strftime(EnsureAware(exp))]

\* the expiration_date arguments function o can be called with
OpExpirations(o) == IF o = "create_document" THEN Expirations ELSE {NoDatetime}

NoDocument == [expiration |-> NoDatetime, request_data |-> RequestData(NoDatetime)]

(* ------------------------------ bookkeeping ---------------------------- *)

\* no token noted yet
NoToken == "<no token>"

\* the tokens a call has itself checked (in _ensure_connected) and obtained
\* (stored by its own nested connect)
NoSeen == [checked |-> NoToken, obtained |-> NoToken]

\* counts over the whole run: calls that made a first request, calls with
\* retry at its default whose first response was a 401, resource requests,
\* connects made from inside _api_request; and whether the last ok token
\* response had no access_token field
NoStats ==
    [executes |-> 0, first401 |-> 0, attempts |-> 0, reconnects |-> 0,
     tokenless |-> FALSE]

(* -------------------------------- state -------------------------------- *)

VARIABLES
    client,     \* the OAuth2Client the callers share
    calls,      \* number of library calls started so far
    pc,         \* per thread: the statement its call is at
    op,         \* per thread: the library function it called
    retry,      \* per thread: _api_request's retry argument
    headers,    \* per thread: _api_request's headers dict
    response,   \* per thread: _api_request's response variable
    trace,      \* per thread: what the call has done on the network so far
    swallowed,  \* per thread: the exception _api_request caught from connect
    result,     \* per thread: what the call returned or raised
    given,      \* per thread: the headers argument as the caller passed it
    pre,        \* per thread: the client as it was when the call started
    gen,        \* per thread: the generator download_document returned
    document,   \* per thread: create_document's expiration_date and request_data
    seen,       \* per thread: the tokens the call checked and obtained itself
    serialized, \* whether the callers serialize their calls on the client
    stats       \* counts over the run

vars == << client, calls, pc, op, retry, headers, response, trace, swallowed,
           result, given, pre, gen, document, seen, serialized, stats >>

\* one entry of a call's trace
Event(kind, auth, r) == [kind |-> kind, auth |-> auth, response |-> r]

\* no call has started yet
InitFrames ==
    /\ calls = 0
    /\ pc = [t \in Threads |-> "idle"]
    /\ op = [t \in Threads |-> "none"]
    /\ retry = [t \in Threads |-> TRUE]
    /\ headers = [t \in Threads |-> NoHeaders]
    /\ response = [t \in Threads |-> NoResponse]
    /\ trace = [t \in Threads |-> << >>]
    /\ swallowed = [t \in Threads |-> NoError]
    /\ result = [t \in Threads |-> NoResult]
    /\ given = [t \in Threads |-> NoHeaders]
    /\ pre = [t \in Threads |-> NoClient]
    /\ gen = [t \in Threads |-> NoGenerator]
    /\ document = [t \in Threads |-> NoDocument]
    /\ seen = [t \in Threads |-> NoSeen]
    /\ stats = NoStats

Init ==
    /\ client \in Clients
    /\ serialized = TRUE
    /\ InitFrames

\* variant: nothing keeps two calls apart
Serialized_NoLock(t) == TRUE

\* the callers serialize their use of the client: a call starts only while
\* no other thread is inside one
Serialized(t) == serialized => \A u \in Threads \ {t} : pc[u] = "idle"

\* the first statement of function o
Entry(o) == IF o \in {"connect", "_validate"} THEN "validate" ELSE "ensure"

\* thread t calls o with the given retry, headers and expiration_date
\* arguments; create_document builds request_data before it calls _api_request
Invoke(t, o, rt, h, exp) ==
    /\ pc[t] = "idle"
    /\ calls < MaxCalls
    /\ calls' = calls + 1
    /\ pc' = [pc EXCEPT ![t] = Entry(o)]
    /\ op' = [op EXCEPT ![t] = o]
    /\ retry' = [retry EXCEPT ![t] = rt]
    /\ headers' = [headers EXCEPT ![t] = h]
    /\ given' = [given EXCEPT ![t] = h]
    /\ pre' = [pre EXCEPT ![t] = client]
    /\ document' = [document EXCEPT ![t] =
                        [expiration |-> exp, request_data |-> RequestData(exp)]]
    /\ UNCHANGED << client, response, trace, swallowed, result, gen, seen,
                    serialized, stats >>

\* a caller calls one of the resource functions
CallResource(t) ==
    /\ Serialized(t)
    /\ \E o \in ResourceOps : \E exp \in OpExpirations(o) :
           Invoke(t, o, TRUE, OpHeaders(o), exp)

\* a caller calls _api_request itself
CallApiRequest(t) ==
    /\ Serialized(t)
    /\ \E rt \in BOOLEAN, h \in CallerHeaders : Invoke(t, "_api_request", rt, h, NoDatetime)

\* a caller calls connect
CallConnect(t) ==
    /\ Serialized(t)
    /\ Invoke(t, "connect", TRUE, NoHeaders, NoDatetime)

\* a caller calls _validate
CallValidate(t) ==
    /\ Serialized(t)
    /\ Invoke(t, "_validate", TRUE, NoHeaders, NoDatetime)

(* --------------------------- _ensure_connected ------------------------- *)

\* _api_request's first statement: _ensure_connected(client)
EnsureConnected(t) ==
    /\ pc[t] = "ensure"
    /\ IF ~is_connected(client)
       THEN /\ result' = [result EXCEPT ![t] =
                            Raise(ESignBaseSDKError(MsgNotConn, "", NoStatusCode))]
            /\ pc' = [pc EXCEPT ![t] = "done"]
       ELSE /\ pc' = [pc EXCEPT ![t] = "headers"]
            /\ UNCHANGED result
    /\ UNCHANGED << client, calls, op, retry, headers, response, trace,
                    swallowed, given, pre,
                    gen, document, serialized, stats >>
    /\ seen' = [seen EXCEPT ![t].checked = client.access_token]

(* ------------------------------ _api_request --------------------------- *)

\* variant: plain assignment instead of setdefault
SetDefault_Overwrite(h, token) == [h EXCEPT !["Authorization"] = Bearer(token)]

\* headers.setdefault("Authorization", f"Bearer {client.access_token}")
SetDefault(h, token) ==
    IF h["Authorization"] = Absent
    THEN [h EXCEPT !["Authorization"] = Bearer(token)]
    ELSE h

\* variant: the header of the first attempt is sent again
RetryAuthorization_Stale(h, token) ==
    IF h["Authorization"] = Absent THEN "" ELSE h["Authorization"]

\* variant: without a token the retry goes out with an empty header
RetryAuthorization_EmptyWhenUnset(h, token) ==
    IF Truthy(token) THEN Bearer(token) ELSE ""

\* the Authorization header of the retried request
RetryAuthorization(h, token) ==
    IF Truthy(token)
    THEN Bearer(token)
    ELSE IF h["Authorization"] = Absent THEN "" ELSE h["Authorization"]

\* variant: one reconnect per client instead of one per call
ShouldRetry_OncePerClient(r, rt) ==
    r.status_code = 401 /\ rt /\ stats.reconnects = 0

\* variant: any failed response starts a reconnect
ShouldRetry_AnyError(r, rt) == r.status_code >= 400 /\ rt

\* variant: the reconnect is tied to the wrong status
ShouldRetry_WrongStatus(r, rt) == r.status_code = 403 /\ rt

\* whether _api_request reconnects and retries after response r
ShouldRetry(r, rt) == r.status_code = 401 /\ rt

SetDefaultHeader(t) ==
    /\ pc[t] = "headers"
    /\ headers' = [headers EXCEPT ![t] = SetDefault(headers[t], client.access_token)]
    /\ pc' = [pc EXCEPT ![t] = "send"]
    /\ UNCHANGED << client, calls, op, retry, response, trace, swallowed,
                    result, given, pre,
                    gen, document, seen, serialized, stats >>

\* the first requests.request(...) and the test for a reconnect
FirstRequest(t) ==
    /\ pc[t] = "send"
    /\ \E r \in ResourceResponses :
        /\ response' = [response EXCEPT ![t] = r]
        /\ trace' = [trace EXCEPT ![t] =
                        Append(@, Event("request", headers[t]["Authorization"], r))]
        /\ pc' = [pc EXCEPT ![t] =
                        IF ShouldRetry(r, retry[t]) THEN "connect" ELSE "return"]
        /\ stats' = [stats EXCEPT
                        !.executes = @ + 1,
                        !.attempts = @ + 1,
                        !.first401 = IF r.status_code = 401 /\ retry[t]
                                     THEN @ + 1 ELSE @]
    /\ UNCHANGED << client, calls, op, retry, headers, swallowed, result, given, pre,
                    gen, document, seen, serialized >>

\* headers["Authorization"] = ... after the reconnect attempt
RetryHeader(t) ==
    /\ pc[t] = "reheader"
    /\ headers' = [headers EXCEPT ![t] =
                    [@ EXCEPT !["Authorization"] =
                        RetryAuthorization(headers[t], client.access_token)]]
    /\ pc' = [pc EXCEPT ![t] = "resend"]
    /\ UNCHANGED << client, calls, op, retry, response, trace, swallowed,
                    result, given, pre,
                    gen, document, seen, serialized, stats >>

\* the second requests.request(...)
RetryRequest(t) ==
    /\ pc[t] = "resend"
    /\ \E r \in ResourceResponses :
        /\ response' = [response EXCEPT ![t] = r]
        /\ trace' = [trace EXCEPT ![t] =
                        Append(@, Event("request", headers[t]["Authorization"], r))]
    /\ pc' = [pc EXCEPT ![t] = "return"]
    /\ UNCHANGED << client, calls, op, retry, headers, swallowed, result, given, pre,
                    gen, document, seen, serialized >>
    /\ stats' = [stats EXCEPT !.attempts = @ + 1]

\* return response, and what the calling resource function makes of it
Return(t) ==
    /\ pc[t] = "return"
    /\ result' = [result EXCEPT ![t] = Outcome(op[t], response[t])]
    /\ pc' = [pc EXCEPT ![t] = "done"]
    /\ UNCHANGED << client, calls, op, retry, headers, response, trace,
                    swallowed, given, pre,
                    document, seen, serialized, stats >>
    /\ gen' = [gen EXCEPT ![t] = Generator(Outcome(op[t], response[t]))]

(* -------------------------------- connect ------------------------------ *)

\* connect called from _api_request runs inside try/except Exception: pass
Nested(t) == op[t] \notin {"connect", "_validate"}

\* variant: no try/except around the nested connect
ConnectRaises_Propagates(t, e) ==
    /\ result' = [result EXCEPT ![t] = Raise(e)]
    /\ pc' = [pc EXCEPT ![t] = "done"]
    /\ UNCHANGED swallowed

\* connect raises e: the caller of connect sees it, _api_request swallows it
ConnectRaises(t, e) ==
    IF Nested(t)
    THEN /\ swallowed' = [swallowed EXCEPT ![t] = e]
         /\ pc' = [pc EXCEPT ![t] = "reheader"]
         /\ UNCHANGED result
    ELSE /\ result' = [result EXCEPT ![t] = Raise(e)]
         /\ pc' = [pc EXCEPT ![t] = "done"]
         /\ UNCHANGED swallowed

\* connect returns None
ConnectReturns(t) ==
    IF Nested(t)
    THEN /\ pc' = [pc EXCEPT ![t] = "reheader"]
         /\ UNCHANGED << result, swallowed >>
    ELSE /\ result' = [result EXCEPT ![t] = ReturnNone]
         /\ pc' = [pc EXCEPT ![t] = "done"]
         /\ UNCHANGED swallowed

\* connect up to its HTTP request: _validate and the grant type check
ConnectBegin(t) ==
    /\ pc[t] \in {"connect", "validate"}
    /\ op[t] # "_validate"
    /\ trace' = [trace EXCEPT ![t] = Append(@, Event("connect", "", NoResponse))]
    /\ IF ConnectPreflight(client) # NoError
       THEN ConnectRaises(t, ConnectPreflight(client))
       ELSE /\ pc' = [pc EXCEPT ![t] = "post"]
            /\ UNCHANGED << result, swallowed >>
    /\ UNCHANGED << client, calls, op, retry, headers, response, given, pre,
                    gen, document, seen, serialized >>
    /\ stats' = [stats EXCEPT !.reconnects = IF Nested(t) THEN @ + 1 ELSE @]

\* variant: a token already held is not overwritten
StoreToken_KeepOld(c, r) ==
    IF Truthy(c.access_token)
    THEN c
    ELSE [c EXCEPT !.access_token = DictGet(Json(r.text), "access_token")]

\* client.access_token = response.json().get("access_token")
StoreToken(c, r) ==
    [c EXCEPT !.access_token = DictGet(Json(r.text), "access_token")]

\* variant: the status code is not passed on
ConnectError_NoStatus(r) == ESignBaseSDKError(MsgConnect, r.text, NoStatusCode)

\* the error connect raises on a token response that is not ok
ConnectError(r) == ESignBaseSDKError(MsgConnect, r.text, r.status_code)

\* variant: a failed token request drops the token
ClientAfterToken_ClearOnFailure(c, r) ==
    IF ~Ok(r) THEN [c EXCEPT !.access_token = None] ELSE StoreToken(c, r)

\* the client once connect has handled token response r
ClientAfterToken(c, r) == IF ~Ok(r) THEN c ELSE StoreToken(c, r)

\* requests.post(...oauth2/token...) and what connect does with the answer
TokenRequest(t) ==
    /\ pc[t] = "post"
    /\ \E r \in TokenResponses :
        /\ trace' = [trace EXCEPT ![t] = Append(@, Event("post", "Basic", r))]
        /\ client' = ClientAfterToken(client, r)
        /\ seen' = [seen EXCEPT ![t].obtained =
                        IF Ok(r) THEN ClientAfterToken(client, r).access_token ELSE @]
        /\ stats' = [stats EXCEPT !.tokenless =
                        IF Ok(r) THEN Json(r.text).access_token = Absent ELSE @]
        /\ IF ~Ok(r)
           THEN ConnectRaises(t, ConnectError(r))
           ELSE ConnectReturns(t)
    /\ UNCHANGED << calls, op, retry, headers, response, given, pre,
                    gen, document, serialized >>

\* a direct call of _validate
Validate(t) ==
    /\ pc[t] = "validate"
    /\ op[t] = "_validate"
    /\ result' = [result EXCEPT ![t] =
                    IF _validate(client) # NoError
                    THEN Raise(_validate(client)) ELSE ReturnNone]
    /\ pc' = [pc EXCEPT ![t] = "done"]
    /\ UNCHANGED << client, calls, op, retry, headers, response, trace,
                    swallowed, given, pre,
                    gen, document, seen, serialized, stats >>

(* --------------------------- download_document ------------------------- *)

\* the caller's next() on the generator yields the next chunk
NextChunk(t) ==
    /\ pc[t] = "done"
    /\ result[t].value_type = "generator"
    /\ gen[t].stream # << >>
    /\ gen' = [gen EXCEPT ![t] = YieldNext(gen[t])]
    /\ UNCHANGED << client, calls, pc, op, retry, headers, response, trace,
                    swallowed, result, given, pre, document, seen, serialized,
                    stats >>

\* the caller's next() on the exhausted generator raises StopIteration
NextExhausted(t) ==
    /\ pc[t] = "done"
    /\ result[t].value_type = "generator"
    /\ gen[t].stream = << >>
    /\ gen[t].stops < MaxStops
    /\ gen' = [gen EXCEPT ![t].stops = @ + 1]
    /\ UNCHANGED << client, calls, pc, op, retry, headers, response, trace,
                    swallowed, result, given, pre, document, seen, serialized,
                    stats >>

(* ------------------------------- the caller ---------------------------- *)

\* the caller takes the outcome; its frame is gone
Finish(t) ==
    /\ pc[t] = "done"
    /\ pc' = [pc EXCEPT ![t] = "idle"]
    /\ op' = [op EXCEPT ![t] = "none"]
    /\ retry' = [retry EXCEPT ![t] = TRUE]
    /\ headers' = [headers EXCEPT ![t] = NoHeaders]
    /\ response' = [response EXCEPT ![t] = NoResponse]
    /\ trace' = [trace EXCEPT ![t] = << >>]
    /\ swallowed' = [swallowed EXCEPT ![t] = NoError]
    /\ result' = [result EXCEPT ![t] = NoResult]
    /\ given' = [given EXCEPT ![t] = NoHeaders]
    /\ pre' = [pre EXCEPT ![t] = NoClient]
    /\ gen' = [gen EXCEPT ![t] = NoGenerator]
    /\ document' = [document EXCEPT ![t] = NoDocument]
    /\ seen' = [seen EXCEPT ![t] = NoSeen]
    /\ UNCHANGED << client, calls, serialized, stats >>

Step(t) ==
    \/ CallResource(t)
    \/ CallApiRequest(t)
    \/ CallConnect(t)
    \/ CallValidate(t)
    \/ EnsureConnected(t)
    \/ SetDefaultHeader(t)
    \/ FirstRequest(t)
    \/ ConnectBegin(t)
    \/ TokenRequest(t)
    \/ RetryHeader(t)
    \/ RetryRequest(t)
    \/ Return(t)
    \/ Validate(t)
    \/ NextChunk(t)
    \/ NextExhausted(t)
    \/ Finish(t)

Next == \E t \in Threads : Step(t)

Spec == Init /\ [][Next]_vars

(* ------------------------- two concurrent callers ---------------------- *)

\* the two threads that call resource functions on the same client
Racers == {1, 2}

\* the resource functions they call
RaceOps == {"get_document", "delete_document"}

\* the client they share: valid and connected
RaceClients ==
    { c \in Clients : /\ Defects(c) = {}
                      /\ c.grant_type = "client_credentials"
                      /\ c.access_token = "oldtoken" }

\* the callers either serialize their calls or do not
InitConc ==
    /\ client \in RaceClients
    /\ serialized \in BOOLEAN
    /\ InitFrames

CallRace(t) ==
    /\ t \in Racers
    /\ Serialized(t)
    /\ \E o \in RaceOps : Invoke(t, o, TRUE, OpHeaders(o), NoDatetime)

StepConc(t) ==
    \/ CallRace(t)
    \/ EnsureConnected(t)
    \/ SetDefaultHeader(t)
    \/ FirstRequest(t)
    \/ ConnectBegin(t)
    \/ TokenRequest(t)
    \/ RetryHeader(t)
    \/ RetryRequest(t)
    \/ Return(t)
    \/ Finish(t)

NextConc == \E t \in Threads : StepConc(t)

SpecConc == InitConc /\ [][NextConc]_vars

(* ============================== properties ============================= *)

\* the calls that go through _api_request: the resource functions and
\* _api_request itself
ViaExecute(t) == op[t] \in ResourceOps \cup {"_api_request"}

\* the events of one kind in a trace, and their count
OfKind(tr, k) == SelectSeq(tr, LAMBDA e : e.kind = k)
NumKind(tr, k) == Len(OfKind(tr, k))

\* the kinds of a trace's events, in order
Kinds(tr) == [i \in 1..Len(tr) |-> tr[i].kind]

Last(tr) == tr[Len(tr)]

\* the call of thread t has had a first response, and it was a 401
First401(t) ==
    /\ ViaExecute(t)
    /\ Len(trace[t]) > 0
    /\ trace[t][1].kind = "request"
    /\ trace[t][1].response.status_code = 401

\* the connect recorded in trace tr has ended in a failure
ConnectFailed(tr) ==
    \E i \in 1..Len(tr) :
        /\ tr[i].kind = "connect"
        /\ \/ i = Len(tr)
           \/ tr[i + 1].kind # "post"
           \/ tr[i + 1].response.status_code >= 400

\* the spec's error kinds, told apart by the message of ESignBaseSDKError
ConfigurationMessages == {MsgScope, MsgId, MsgSecret, MsgUserPass}
IsConfigurationError(res) ==
    res.kind = "raise" /\ res.error.message \in ConfigurationMessages
IsNotConnectedError(res) ==
    res.kind = "raise" /\ res.error.message = MsgNotConn
IsAuthenticationError(res) ==
    res.kind = "raise" /\ res.error.message = MsgConnect

\* C1: a call through _api_request (retry left at its default) whose first
\* response is a 401 never makes more than two resource requests nor more
\* than one connect, and when it ends it has made exactly two requests with
\* the one connect (and at most its one token request) between them, and its
\* outcome is that of the second response, whatever its status.
C1_RetryOnceOn401 ==
    \A t \in Threads :
        (First401(t) /\ retry[t]) =>
            /\ NumKind(trace[t], "request") <= 2
            /\ NumKind(trace[t], "connect") <= 1
            /\ pc[t] = "done" =>
                /\ NumKind(trace[t], "request") = 2
                /\ NumKind(trace[t], "connect") = 1
                /\ Kinds(trace[t]) \in { <<"request", "connect", "request">>,
                                         <<"request", "connect", "post", "request">> }
                /\ result[t] = Outcome(op[t], Last(trace[t]).response)
                /\ op[t] = "_api_request" =>
                       /\ result[t].kind = "return"
                       /\ result[t].response = Last(trace[t]).response

\* a finished _api_request whose first and second responses were both 401
C1_Witness ==
    \E t \in Threads :
        /\ pc[t] = "done"
        /\ op[t] = "_api_request"
        /\ retry[t]
        /\ First401(t)
        /\ Len(trace[t]) = 4
        /\ result[t].response.status_code = 401

\* C2: a call through _api_request that starts while access_token is None
\* or empty raises the not-connected error, has sent nothing (no resource
\* request, no token request), and leaves access_token as it was.
C2_NotConnectedBeforeNetwork ==
    \A t \in Threads :
        (ViaExecute(t) /\ pc[t] # "ensure" /\ ~Truthy(pre[t].access_token)) =>
            /\ pc[t] = "done"
            /\ IsNotConnectedError(result[t])
            /\ trace[t] = << >>
            /\ client.access_token = pre[t].access_token

\* a resource function that ended on an empty-string token
C2_Witness ==
    \E t \in Threads :
        /\ pc[t] = "done"
        /\ op[t] = "get_credits"
        /\ pre[t].access_token = ""
        /\ IsNotConnectedError(result[t])

\* C3: when the first response is a 401 and the nested connect fails (in
\* _validate, or on a token response that is not ok), the call does not end
\* there: the finished call has made exactly two requests, the second one
\* with Bearer <the token the call started with>, which is still the
\* client's token, and its outcome is that of the second response, never the
\* error of connect.
C3_ReconnectFailureSwallowed ==
    \A t \in Threads :
        (First401(t) /\ retry[t] /\ pc[t] = "done" /\ ConnectFailed(trace[t])) =>
            /\ NumKind(trace[t], "request") = 2
            /\ Last(trace[t]).kind = "request"
            /\ Last(trace[t]).auth = "Bearer " \o pre[t].access_token
            /\ client.access_token = pre[t].access_token
            /\ result[t] = Outcome(op[t], Last(trace[t]).response)
            /\ ~IsConfigurationError(result[t])
            /\ ~IsAuthenticationError(result[t])
            /\ swallowed[t] # NoError

\* a finished call whose nested connect got a 400 and whose retry got a 200
C3_Witness ==
    \E t \in Threads :
        /\ pc[t] = "done"
        /\ First401(t)
        /\ Len(trace[t]) = 4
        /\ trace[t][3].response.status_code = 400
        /\ IsAuthenticationError([kind |-> "raise", error |-> swallowed[t]])
        /\ result[t].kind = "return"

\* C4: once connect has had a token response that is not ok, it has sent
\* exactly one token request, the client is as it was when the call started,
\* and a direct connect ends raising the error that carries the response's
\* status code and text.
C4_ConnectHttpError ==
    \A t \in Threads :
        (\E i \in 1..Len(trace[t]) :
            trace[t][i].kind = "post" /\ trace[t][i].response.status_code >= 400) =>
            LET r == OfKind(trace[t], "post")[1].response IN
            /\ NumKind(trace[t], "post") = 1
            /\ client = pre[t]
            /\ op[t] = "connect" =>
                /\ pc[t] = "done"
                /\ IsAuthenticationError(result[t])
                /\ result[t].error.status_code = r.status_code
                /\ result[t].error.text = r.text

\* a direct connect on a client that held a token, answered with a 400
C4_Witness ==
    \E t \in Threads :
        /\ pc[t] = "done"
        /\ op[t] = "connect"
        /\ pre[t].access_token = "oldtoken"
        /\ result[t].error.status_code = 400
        /\ result[t].error.text = "bad"
        /\ client.access_token = "oldtoken"

\* the credentials the spec calls invalid
Invalid(c) ==
    \/ Len(c.scope) = 0
    \/ c.id = ""
    \/ c.secret = ""
    \/ /\ c.grant_type = "authorization_code"
       /\ \/ c.user_name \in {None, ""}
          \/ c.password \in {None, ""}

\* C5: connect on an invalid credential sends no token request and leaves
\* the client as it was; a direct connect ends raising a configuration error.
C5_InvalidCredentialNoHttp ==
    \A t \in Threads :
        (op[t] \notin {"none", "_validate"} /\ Invalid(pre[t])) =>
            /\ NumKind(trace[t], "post") = 0
            /\ client = pre[t]
            /\ (op[t] = "connect" /\ pc[t] # "validate") =>
                /\ pc[t] = "done"
                /\ IsConfigurationError(result[t])

\* a direct connect with the authorization_code grant and no password
C5_Witness ==
    \E t \in Threads :
        /\ pc[t] = "done"
        /\ op[t] = "connect"
        /\ pre[t].grant_type = "authorization_code"
        /\ pre[t].user_name = "user"
        /\ pre[t].password = None
        /\ pre[t].scope # << >> /\ pre[t].id # "" /\ pre[t].secret # ""
        /\ IsConfigurationError(result[t])

\* C6: when a direct connect has ended on an ok token response whose JSON has
\* an access_token field, connect returned and the client's access_token is
\* that field's value, whatever token it held before.
C6_ConnectStoresToken ==
    \A t \in Threads :
        (/\ op[t] = "connect"
         /\ pc[t] = "done"
         /\ Len(trace[t]) > 0
         /\ Last(trace[t]).kind = "post"
         /\ Last(trace[t]).response.status_code < 400) =>
            LET text == Last(trace[t]).response.text IN
            /\ result[t] = ReturnNone
            /\ ~Invalid(pre[t])
            /\ text = "{access_token:t1}" => client.access_token = "t1"
            /\ text = "{access_token:t2}" => client.access_token = "t2"
            /\ text = "{access_token:}" => client.access_token = ""

\* a direct connect that replaced oldtoken by t2
C6_Witness ==
    \E t \in Threads :
        /\ op[t] = "connect"
        /\ pc[t] = "done"
        /\ pre[t].access_token = "oldtoken"
        /\ Last(trace[t]).response.text = "{access_token:t2}"
        /\ client.access_token = "t2"

\* the step is thread t receiving an ok token response inside connect
TokenSuccessStep(t) ==
    /\ pc[t] = "post"
    /\ Len(trace'[t]) = Len(trace[t]) + 1
    /\ Last(trace'[t]).kind = "post"
    /\ Last(trace'[t]).response.status_code < 400

\* C7: no step changes a field of the client other than access_token, and
\* access_token changes only in a step in which a connect (direct or nested
\* in a 401 retry) receives an ok token response.
C7_TokenFrame ==
    [][ /\ [client' EXCEPT !.access_token = client.access_token] = client
        /\ client'.access_token # client.access_token =>
               \E t \in Threads : TokenSuccessStep(t) ]_vars

\* a nested connect has replaced the token inside a resource function
C7_Witness ==
    \E t \in Threads :
        /\ op[t] \in ResourceOps
        /\ pc[t] = "done"
        /\ pre[t].access_token = "oldtoken"
        /\ client.access_token = "t1"

\* C8 (as claimed): a finished resource function whose final response is not
\* ok has raised an error carrying that response's status code and text, and
\* one whose final response is ok has returned the decoded body (nothing for
\* delete_document, the chunk stream for download_document).
C8_ApiErrorCarriesStatusAndText ==
    \A t \in Threads :
        (op[t] \in ResourceOps /\ pc[t] = "done" /\ Len(trace[t]) > 0) =>
            LET r == Last(trace[t]).response IN
            IF r.status_code >= 400
            THEN /\ result[t].kind = "raise"
                 /\ result[t].error.status_code = r.status_code
                 /\ result[t].error.text = r.text
            ELSE /\ result[t].kind = "return"
                 /\ result[t].value_type =
                        CASE op[t] = "delete_document" -> "None"
                          [] op[t] = "download_document" -> "generator"
                          [] OTHER -> "json"
                 /\ result[t].value_type = "json" => result[t].json.ok = "true"

\* C9 (as claimed): once access_token is set, no step unsets it.
C9_NeverDisconnected ==
    [][ Truthy(client.access_token) => Truthy(client'.access_token) ]_vars

\* C9 (amended): a step leaves a set access_token set unless it is a connect
\* (direct or nested) receiving an ok token response whose JSON has no
\* access_token field or an empty one; and an ok token response with a
\* non-empty access_token always leaves the token set.
C9_UnsetOnlyByTokenlessSuccess ==
    [][ /\ (Truthy(client.access_token) /\ ~Truthy(client'.access_token)) =>
              \E t \in Threads :
                  /\ TokenSuccessStep(t)
                  /\ Last(trace'[t]).response.text \in {"{}", "{access_token:}"}
        /\ \A t \in Threads :
              (/\ TokenSuccessStep(t)
               /\ Last(trace'[t]).response.text \notin {"{}", "{access_token:}"}) =>
                  Truthy(client'.access_token) ]_vars

\* a connected client has lost its token to an ok token response without one
C9_Witness ==
    \E t \in Threads :
        /\ Truthy(pre[t].access_token)
        /\ Len(trace[t]) > 0
        /\ Last(trace[t]).kind = "post"
        /\ Last(trace[t]).response.text = "{}"
        /\ client.access_token = None

\* the value the caller passed for Authorization, Absent if none
GivenAuthorization(t) == given[t]["Authorization"]

\* C10 (as claimed): every request of a call through _api_request carries
\* the caller's Authorization value when the caller passed one, and carries
\* a Bearer header made by _api_request only when the caller passed none.
C10_CallerAuthorizationKept ==
    \A t \in Threads :
        ViaExecute(t) =>
            \A i \in 1..Len(trace[t]) :
                (trace[t][i].kind = "request" /\ GivenAuthorization(t) # Absent) =>
                    trace[t][i].auth = GivenAuthorization(t)

\* C10 (amended): the first request carries the caller's Authorization value
\* when the caller passed one, and Bearer <access_token> otherwise; the
\* retried request after a 401 carries Bearer <the client's access_token
\* after the nested connect> whenever that token is set, replacing a value
\* the caller passed, and repeats the first request's header only when the
\* token is unset.
C10_CallerAuthorizationFirstAttempt ==
    \A t \in Threads :
        ViaExecute(t) =>
            LET reqs == OfKind(trace[t], "request") IN
            /\ Len(reqs) >= 1 =>
                   reqs[1].auth = IF GivenAuthorization(t) # Absent
                                  THEN GivenAuthorization(t)
                                  ELSE "Bearer " \o pre[t].access_token
            /\ Len(reqs) >= 2 =>
                   reqs[2].auth = IF client.access_token \notin {None, ""}
                                  THEN "Bearer " \o client.access_token
                                  ELSE reqs[1].auth

\* a retried request has replaced the caller's Authorization value
C10_Witness ==
    \E t \in Threads :
        /\ op[t] = "_api_request"
        /\ pc[t] = "done"
        /\ GivenAuthorization(t) = "Custom xyz"
        /\ NumKind(trace[t], "request") = 2
        /\ trace[t][1].auth = "Custom xyz"
        /\ Last(trace[t]).auth = "Bearer t1"

\* the credentials C11 says validate rejects: the password plays no part
InvalidUserOnly(c) ==
    \/ Len(c.scope) = 0
    \/ c.id = ""
    \/ c.secret = ""
    \/ /\ c.grant_type = "authorization_code"
       /\ c.user_name \in {None, ""}

\* C11 (as claimed): a finished _validate has raised a configuration error
\* exactly when scope, id or secret is empty or the grant is
\* authorization_code with the user name missing or empty; it has sent
\* nothing and the client is as it was.
C11_ValidateUserOnly ==
    \A t \in Threads :
        (op[t] = "_validate" /\ pc[t] = "done") =>
            /\ IsConfigurationError(result[t]) <=> InvalidUserOnly(pre[t])
            /\ ~IsConfigurationError(result[t]) => result[t] = ReturnNone
            /\ trace[t] = << >>
            /\ client = pre[t]

\* C11 (amended): a finished _validate has raised a configuration error
\* exactly when scope, id or secret is empty or the grant is
\* authorization_code with the user name or the password missing or empty;
\* otherwise it returned None; it has sent nothing and the client is as it
\* was.
C11_ValidateUserAndPassword ==
    \A t \in Threads :
        (op[t] = "_validate" /\ pc[t] = "done") =>
            /\ IsConfigurationError(result[t]) <=> Invalid(pre[t])
            /\ ~IsConfigurationError(result[t]) => result[t] = ReturnNone
            /\ trace[t] = << >>
            /\ client = pre[t]

\* _validate has rejected an authorization_code client that lacks only the
\* password
C11_Witness ==
    \E t \in Threads :
        /\ op[t] = "_validate"
        /\ pc[t] = "done"
        /\ pre[t].grant_type = "authorization_code"
        /\ pre[t].user_name = "user"
        /\ pre[t].password \in {None, ""}
        /\ pre[t].scope # << >> /\ pre[t].id # "" /\ pre[t].secret # ""
        /\ result[t].kind = "raise"
        /\ result[t].error.message = MsgUserPass

\* C12: a finished download_document whose final response is not ok has
\* raised the error carrying its status and text and has yielded no chunk; on
\* an ok response the chunks yielded so far followed by those still to come
\* are the response's chunks in order, and once the generator has raised
\* StopIteration everything has been yielded and nothing more comes.
C12_DownloadStream ==
    \A t \in Threads :
        /\ result[t].value_type # "generator" => gen[t] = NoGenerator
        /\ (op[t] = "download_document" /\ pc[t] = "done" /\ Len(trace[t]) > 0) =>
            LET r == Last(trace[t]).response IN
            IF r.status_code >= 400
            THEN /\ result[t].kind = "raise"
                 /\ result[t].error.status_code = r.status_code
                 /\ result[t].error.text = r.text
                 /\ gen[t].yielded = << >>
            ELSE /\ result[t].value_type = "generator"
                 /\ r.text = "{ok:true}" =>
                        gen[t].yielded \o gen[t].stream = <<"{ok:", "true}">>
                 /\ gen[t].stops > 0 => gen[t].stream = << >>

\* a download has yielded both chunks and then raised StopIteration twice
C12_Witness ==
    \E t \in Threads :
        /\ op[t] = "download_document"
        /\ gen[t].yielded = <<"{ok:", "true}">>
        /\ gen[t].stops = 2

\* C13: create_document's request_data has no expiration_date when none is
\* passed; for a naive datetime it is the same wall-clock fields followed by
\* +0000; for an aware one the same fields followed by its own offset.
C13_ExpirationSerialized ==
    \A t \in Threads :
        op[t] = "create_document" =>
            LET exp == document[t].expiration
                out == document[t].request_data.expiration_date IN
            /\ exp.wall = None => out = Absent
            /\ (exp.wall # None /\ ~exp.aware) =>
                   out = exp.wall \o "+0000"
            /\ (exp.aware /\ exp.utcoffset = 120) => out = exp.wall \o "+0200"
            /\ (exp.aware /\ exp.utcoffset = -330) => out = exp.wall \o "-0530"

\* create_document has sent a request for a naive expiration_date
C13_Witness ==
    \E t \in Threads :
        /\ op[t] = "create_document"
        /\ Len(trace[t]) > 0
        /\ ~document[t].expiration.aware
        /\ document[t].request_data.expiration_date = "2025-01-01T12:00:00+0000"

\* C14: a call through _api_request whose first response is not a 401 makes
\* that one request only, no connect and no token request, leaves the client
\* as it was, and ends with that response as its outcome.
C14_NoReconnectUnless401 ==
    \A t \in Threads :
        (/\ ViaExecute(t)
         /\ Len(trace[t]) > 0
         /\ trace[t][1].response.status_code # 401) =>
            /\ Kinds(trace[t]) = <<"request">>
            /\ pc[t] \in {"return", "done"}
            /\ client = pre[t]
            /\ pc[t] = "done" =>
                /\ result[t] = Outcome(op[t], trace[t][1].response)
                /\ op[t] = "_api_request" =>
                       result[t].response = trace[t][1].response

\* a resource function has ended on a single 403
C14_Witness ==
    \E t \in Threads :
        /\ op[t] \in ResourceOps
        /\ pc[t] = "done"
        /\ Len(trace[t]) = 1
        /\ trace[t][1].response.status_code = 403
        /\ result[t].kind = "raise"

\* C15 (as claimed): the retried request always carries Bearer <the client's
\* access_token as it is after the nested connect>.
C15_RetryCarriesCurrentToken ==
    \A t \in Threads :
        (First401(t) /\ retry[t] /\ NumKind(trace[t], "request") = 2) =>
            Last(trace[t]).auth = "Bearer " \o client.access_token

\* C15 (amended): the retried request carries Bearer <new token> when the
\* nested connect stored a non-empty token, and Bearer <old token> when the
\* nested connect failed; when the nested connect succeeded without a token
\* (no access_token field, or an empty one) the client's token is unset and
\* the retry repeats the header of the first attempt.
C15_RetryHeaderByReconnectOutcome ==
    \A t \in Threads :
        (First401(t) /\ retry[t] /\ NumKind(trace[t], "request") = 2) =>
            LET posts == OfKind(trace[t], "post")
                auth == Last(trace[t]).auth IN
            /\ ConnectFailed(trace[t]) =>
                   /\ auth = "Bearer " \o pre[t].access_token
                   /\ client.access_token = pre[t].access_token
            /\ ~ConnectFailed(trace[t]) =>
                   /\ Len(posts) = 1
                   /\ posts[1].response.text = "{access_token:t1}" =>
                          auth = "Bearer t1" /\ client.access_token = "t1"
                   /\ posts[1].response.text = "{access_token:t2}" =>
                          auth = "Bearer t2" /\ client.access_token = "t2"
                   /\ posts[1].response.text = "{access_token:}" =>
                          auth = trace[t][1].auth /\ client.access_token = ""
                   /\ posts[1].response.text = "{}" =>
                          auth = trace[t][1].auth /\ client.access_token = None

\* a retry has gone out with the token the nested connect has just stored
C15_Witness ==
    \E t \in Threads :
        /\ First401(t)
        /\ pre[t].access_token = "oldtoken"
        /\ NumKind(trace[t], "request") = 2
        /\ trace[t][1].auth = "Bearer oldtoken"
        /\ Last(trace[t]).auth = "Bearer t2"
        /\ client.access_token = "t2"

\* thread t's call (made without an Authorization header of the caller's)
\* has sent a request with a token that it neither checked in
\* _ensure_connected nor obtained from its own nested connect
ForeignToken(t) ==
    /\ ViaExecute(t)
    /\ GivenAuthorization(t) = Absent
    /\ \E i \in 1..Len(trace[t]) :
        /\ trace[t][i].kind = "request"
        /\ trace[t][i].auth \notin { "Bearer " \o seen[t].checked,
                                     "Bearer " \o seen[t].obtained }

\* C16: while the callers serialize their calls on the client, no call ever
\* sends a token it did not check or obtain itself (that two overlapping
\* calls can is what the witness shows).
C16_SerializedNoForeignToken ==
    serialized => \A t \in Threads : ~ForeignToken(t)

\* without serialization: the other call's nested connect has stored t1
\* between this call's _ensure_connected, which saw oldtoken, and its
\* reading access_token for the header of its first request
C16_Witness ==
    /\ ~serialized
    /\ \E t \in Racers :
        /\ seen[t].checked = "oldtoken"
        /\ seen[t].obtained = NoToken
        /\ Len(trace[t]) > 0
        /\ trace[t][1].auth = "Bearer t1"
        /\ ForeignToken(t)
        /\ \E u \in Racers \ {t} : seen[u].obtained = "t1"

\* no call is in progress
Quiescent == \A t \in Threads : pc[t] \in {"idle", "done"}

\* C17: over a run of calls through _api_request (retry at its default), at
\* any moment the connects made from _api_request are at most the calls
\* whose first response was a 401, and whenever no call is in progress they
\* are exactly as many, and the resource requests are exactly the calls that
\* made a first request plus those calls.
C17_ReconnectBudgetPerCall ==
    /\ stats.reconnects <= stats.first401
    /\ stats.first401 <= stats.executes
    /\ stats.attempts <= stats.executes + stats.first401
    /\ Quiescent =>
        /\ stats.reconnects = stats.first401
        /\ stats.attempts = stats.executes + stats.first401

\* two calls in a row have each reconnected and retried
C17_Witness ==
    /\ Quiescent
    /\ stats.executes = 2
    /\ stats.first401 = 2
    /\ stats.reconnects = 2
    /\ stats.attempts = 4

\* the trace holds an ok token response whose JSON has no access_token
Tokenless(tr) ==
    \E i \in 1..Len(tr) :
        /\ tr[i].kind = "post"
        /\ tr[i].response.status_code < 400
        /\ tr[i].response.text = "{}"

\* C18: after an ok token response without an access_token field, a direct
\* connect has returned None and the client's token is None; a call through
\* _api_request in which this happened still makes its retry, with the
\* Authorization value of its first request, and ends with the retry's
\* response; and a later call through _api_request raises the not-connected
\* error with nothing sent.
C18_TokenlessSuccess ==
    \A t \in Threads :
        /\ (op[t] = "connect" /\ pc[t] = "done" /\ Tokenless(trace[t])) =>
               /\ result[t] = ReturnNone
               /\ client.access_token = None
        /\ (ViaExecute(t) /\ pc[t] = "done" /\ Tokenless(trace[t])) =>
               /\ Kinds(trace[t]) = <<"request", "connect", "post", "request">>
               /\ trace[t][4].auth = trace[t][1].auth
               /\ swallowed[t] = NoError
               /\ client.access_token = None
               /\ result[t] = Outcome(op[t], trace[t][4].response)
        /\ (/\ stats.tokenless
            /\ ViaExecute(t)
            /\ pc[t] # "ensure"
            /\ ~Tokenless(trace[t])) =>
               /\ pc[t] = "done"
               /\ IsNotConnectedError(result[t])
               /\ trace[t] = << >>
               /\ client.access_token = None

\* a call lost the token in its reconnect, and the next resource function
\* has raised the not-connected error
C18_Witness ==
    /\ calls = 2
    /\ stats.tokenless
    /\ stats.first401 = 1
    /\ stats.attempts = 2
    /\ \E t \in Threads :
        /\ op[t] \in ResourceOps
        /\ pc[t] = "done"
        /\ IsNotConnectedError(result[t])
        /\ trace[t] = << >>

====
